---- MODULE Spec2Model ----
(***************************************************************************)
(* Model of the Tableau metadata source                                    *)
(* (metadata-ingestion/src/datahub/ingestion/source/tableau.py).           *)
(*                                                                         *)
(* A process constructs TableauSource objects (Create: __init__ with        *)
(* _authenticate), harvests them (get_workunits) and closes them (close).   *)
(* get_workunits is a generator: a step of the harvest runs the code from   *)
(* one yield to the next, issuing the queries on the way and taking the     *)
(* server's responses as its inputs.  Between two steps the consumer of the *)
(* records may do anything else: construct another source, ask another      *)
(* source for a record, call get_workunits of a source again, close a       *)
(* source, or never come back.  Names of                                    *)
(* entities are sequences of characters so that the "/" replacement is a    *)
(* computation.                                                             *)
(***************************************************************************)
EXTENDS Integers, Sequences, FiniteSets, TLC

(* ------------------------------ bounds --------------------------------- *)
\* largest workbook total the well-behaved server holds
MaxTotal == 25
\* largest configured workbooks_page_size
MaxPageSize == 10
\* answers of one harvest that may depart from the honest answer
MaxFaults == 1
\* largest workbook total and page size of a small server: one that may
\* depart, or one whose source is closed
MaxFaultyTotal == 2
MaxFaultyPageSize == 1

\* TableauSource objects one process constructs
MaxInstances == 2
\* times the process leaves a source that has records to give for another
MaxSwitches == 1
\* calls of close()
MaxCloses == 1
\* largest workbook total of the server several sources harvest
MaxSharedTotal == 1
\* calls of get_workunits on an object after its first
MaxHarvests == 1
\* most records gen_containers yields for a workbook
MaxContainerRecords == 3

(* ------------------------------ helpers -------------------------------- *)
RECURSIVE FoldSeq(_, _, _)
\* left fold: a Python for loop over s that threads the accumulator acc
FoldSeq(Op(_, _), acc, s) ==
    IF s = <<>>
    THEN acc
    ELSE LET next == Op(acc, Head(s))
             rest == Tail(s)
         IN  \* the test makes TLC compute next before it goes on
             IF next = next /\ rest = rest THEN FoldSeq(Op, next, rest) ELSE acc

Range(s) == {s[i] : i \in DOMAIN s}

Min(a, b) == IF a < b THEN a ELSE b

\* s with its first occurrences only, in order
Dedup(s) ==
    FoldSeq(LAMBDA acc, x: IF x \in Range(acc) THEN acc ELSE Append(acc, x), <<>>, s)

IsPrefix(s, t) == Len(s) <= Len(t) /\ SubSeq(t, 1, Len(s)) = s

NoDuplicates(s) == \A i, j \in DOMAIN s : s[i] = s[j] => i = j

(* ------------------------------ names ---------------------------------- *)
\* REPLACE_SLASH_CHAR
REPLACE_SLASH_CHAR == "|"

\* str.replace("/", REPLACE_SLASH_CHAR)
ReplaceSlash(name) ==
    [i \in DOMAIN name |-> IF name[i] = "/" THEN REPLACE_SLASH_CHAR ELSE name[i]]

\* f"{a}/{b}/{c}"
SlashJoin3(a, b, c) == a \o <<"/">> \o b \o <<"/">> \o c

\* a node that has no "id" key
NoId == "<none>"

\* the value of a key the server sent as null (None in Python)
Null == "<null>"

(* ------------------------- remote content ------------------------------ *)
\* Nodes are the JSON dictionaries of the metadata API, reduced to the keys
\* the source reads.  owner is the username under the "owner" key, "" when
\* there is none.  A table's ref stands for the (connectionType,
\* database, schema, name) tuple that make_table_urn turns into its urn.
tOrders == [ref |-> "t_orders", name |-> <<"o", "r", "d">>, columns |-> <<"c1", "c2">>]
tRaw    == [ref |-> "t_raw",    name |-> <<"r", "/", "w">>, columns |-> <<>>]
tRawCols == [ref |-> "t_raw",   name |-> <<"r", "/", "w">>, columns |-> <<"k1">>]
tCust   == [ref |-> "t_cust",   name |-> <<"c", "u">>,      columns |-> <<"n1">>]

fPlain    == [name |-> "f1", typename |-> "CalculatedField", columns |-> <<>>]
fColQ1    == [name |-> "f2", typename |-> "ColumnField",
              columns |-> <<[tableId |-> "q1"], [tableId |-> NoId], [tableId |-> Null],
                            [tableId |-> "q1"]>>]
fColQ2    == [name |-> "f3", typename |-> "ColumnField", columns |-> <<[tableId |-> "q2"]>>]

dsE1 == [id |-> "e1", name |-> <<"e", "1">>, typename |-> "EmbeddedDatasource",
         owner |-> "",
         projectName |-> <<>>, upstreamTables |-> <<tOrders>>, fields |-> <<fPlain>>]
dsE2 == [id |-> "e2", name |-> <<"e", "/", "2">>, typename |-> "EmbeddedDatasource",
         owner |-> "",
         projectName |-> <<>>, upstreamTables |-> <<tRaw>>, fields |-> <<fColQ1>>]
dsP1 == [id |-> "p1", name |-> <<"p", "1">>, typename |-> "PublishedDatasource",
         owner |-> "bob",
         projectName |-> <<"a", "/", "b">>, upstreamTables |-> <<tCust>>,
         fields |-> <<fColQ2>>]
dsP9 == [id |-> "p9", name |-> <<"p", "9">>, typename |-> "PublishedDatasource",
         owner |-> "",
         projectName |-> <<"x">>, upstreamTables |-> <<>>, fields |-> <<>>]
\* a published datasource that came with "id": null, and one without the key
dsNull == [id |-> Null, name |-> <<"p", "n">>, typename |-> "PublishedDatasource",
           owner |-> "",
           projectName |-> <<"x">>, upstreamTables |-> <<>>, fields |-> <<>>]
dsNoId == [id |-> NoId, name |-> <<"p", "m">>, typename |-> "PublishedDatasource",
           owner |-> "",
           projectName |-> <<"x">>, upstreamTables |-> <<>>, fields |-> <<>>]

sheet1 == [id |-> "s1", name |-> <<"s", "/", "1">>,
           upstreamDatasources |-> <<"p1", NoId, Null, "e1", "", "p1">>]
dash1 == [id |-> "b1", name |-> <<"b", "/", "1">>]
sheet2 == [id |-> "s2", name |-> <<"s", "2">>, upstreamDatasources |-> <<>>]
dash2 == [id |-> "b2", name |-> <<"b", "2">>]

\* a workbook with a sheet, a dashboard and an embedded datasource over a
\* table that has columns
wbA == [id |-> "wA", name |-> <<"w", "/", "A">>, projectName |-> <<"a", "/", "b">>,
        owner |-> "alice",
        sheets |-> <<sheet1>>, dashboards |-> <<dash1>>, embeddedDatasources |-> <<dsE1>>]
\* a workbook whose embedded datasource reads custom SQL over a column-less table
wbB == [id |-> "wB", name |-> <<"w", "B">>, projectName |-> <<"x">>,
        owner |-> "",
        sheets |-> <<>>, dashboards |-> <<>>, embeddedDatasources |-> <<dsE2>>]
\* a workbook without an owner that references no datasource
wbC == [id |-> "wC", name |-> <<"w", "C">>, projectName |-> <<"x">>,
        owner |-> "",
        sheets |-> <<sheet2>>, dashboards |-> <<dash2>>, embeddedDatasources |-> <<>>]

\* the datasource as it appears under referencedByFields of a custom-SQL column
refE2 == [id |-> "e2", name |-> <<"e", "/", "2">>, projectName |-> <<"x">>,
          upstreamTables |-> <<tRawCols>>]
refP1 == [id |-> "p1", name |-> <<"p", "1">>, projectName |-> <<"a", "/", "b">>,
          upstreamTables |-> <<tRaw>>]

csqlQ1 == [id |-> "q1", name |-> <<"q", "1">>,
           columns |-> <<[name |-> "x1", referencedByFields |-> <<[datasource |-> <<refE2>>],
                                                                   [datasource |-> <<>>]>>],
                         [name |-> "x2", referencedByFields |-> <<[datasource |-> <<refE2>>]>>]>>]
csqlQ2 == [id |-> "q2", name |-> <<"q", "2">>,
           columns |-> <<[name |-> "y1", referencedByFields |-> <<[datasource |-> <<refP1>>]>>]>>]
\* a custom-SQL table that came with "id": null, read by a datasource that
\* came with "id": null and by one without the key
refNull == [id |-> Null, name |-> <<"r", "n">>, projectName |-> <<"x">>,
            upstreamTables |-> <<>>]
refNoId == [id |-> NoId, name |-> <<"r", "m">>, projectName |-> <<"x">>,
            upstreamTables |-> <<>>]
csqlNull == [id |-> Null, name |-> <<"q", "n">>,
             columns |-> <<[name |-> "z1",
                            referencedByFields |-> <<[datasource |-> <<refNull>>],
                                                     [datasource |-> <<refNoId>>]>>]>>]

\* what the server holds, per connection
WorkbookCatalogue  == <<wbA, wbB, wbC>>
PublishedCatalogue == <<dsP1, dsP9>>
CustomSqlCatalogue == <<csqlQ1, csqlQ2>>

(* ------------------------- state --------------------------------------- *)
VARIABLES
    pc,        \* where the running source is: "none" (no source yet),
               \* "created", "enter" (at the guard of a pass), "loop" (at the
               \* head of the while loop of a pass), "yielded" (the generator
               \* is suspended at a yield), "done", "raised"
    phase,     \* index in PhaseOrder of the pass get_workunits is at
    harvest,   \* the call of get_workunits on its object the running generator
               \* came from: 1 for the first, 0 when there was none yet
    config,    \* TableauConfig: workbooks_page_size, projects, ingest_owner
    server,    \* the remote side: what it holds and how it may answer
    library,   \* the container builder of the emitter library: how many
               \* records gen_containers yields for a container
    self,      \* the fields of the running TableauSource object and what it
               \* has yielded; upstream_tables is the attribute of the class
    report,    \* SourceReport: the keys of the failures and of the warnings
    loop,      \* the locals of the running pagination loop and what is left
               \* to do of the page it is on
    qlog,      \* every call of query_metadata of this source, with what came
               \* back and the harvest that issued it
    outConn,   \* for each yielded record, the connection being paginated and
               \* the harvest that yielded it
    others,    \* the other generators of the process, each as it was left
               \* with its object
    budget     \* what still happens around the harvests: sources the process
               \* constructs, times it leaves a generator that has records to
               \* give, calls of close(), constructions that do not end
               \* signed in, calls of get_workunits on an object that was
               \* harvested before

vars == <<pc, phase, harvest, config, server, library, self, report, loop, qlog, outConn,
          others, budget>>

(* ------------------------- output records ------------------------------ *)
Platform == "tableau"
Env == "prod"

\* an aspect list without an ownership aspect (None of _get_ownership)
NoOwnership == [present |-> FALSE, owners |-> <<>>]

WorkUnit(kind, urn, fields, upstreams, path) ==
    [kind |-> kind, urn |-> urn, fields |-> fields, upstreams |-> upstreams, path |-> path,
     owner |-> NoOwnership]

\* `if owner is not None: snapshot.aspects.append(owner)`
WithOwner(wu, owner) == [wu EXCEPT !.owner = owner]

\* the mutation of _get_ownership that does not look at ingest_owner
get_ownership_always(user) ==
    IF user # "" THEN [present |-> TRUE, owners |-> <<user>>] ELSE NoOwnership

\* _get_ownership
get_ownership(user) ==
    IF config.ingest_owner /\ user # ""
    THEN [present |-> TRUE, owners |-> <<user>>]
    ELSE NoOwnership

\* make_table_urn of tableau_common
make_table_urn(table) == table.ref

(* ------------------------- generator steps ----------------------------- *)
\* The methods that map a page are generators: what one of them does for a
\* node is a sequence of steps, each a write to the object or a yield, that
\* depends on the node alone.  The steps are carried out one yield at a
\* time (RunToYield), on the object as it is when the generator is resumed.
Step(op, arg) == [op |-> op, arg |-> arg]

\* `yield wu`
Yield(wu) == Step("yield", wu)

\* `if x not in self.datasource_ids_being_used: ...append(x)`
TrackDatasource(id) == Step("track_datasource", id)

\* `if table_id not in self.custom_sql_ids_being_used: ...append(table_id)`
TrackCustomSql(id) == Step("track_custom_sql", id)

\* `self.upstream_tables[table_urn] = (columns, table_path)`
RecordTable(key, val) == Step("record_table", [key |-> key, val |-> val])

\* `yield from self.emit_upstream_tables()`
EmitUpstreamTables == Step("emit_upstream_tables", <<>>)

\* the for loop of emit_upstream_tables about to ask its dict iterator for
\* entry idx; size is the length of the dict when the loop began
NextTable(idx, size) == Step("next_table", [idx |-> idx, size |-> size])

\* the steps of a for loop whose body has the steps body(x)
ForEach(body(_), s) == FoldSeq(LAMBDA acc, x: acc \o body(x), <<>>, s)

(* ------------------------- Reference Tracker --------------------------- *)
\* the mutation of Record that forgets the membership test
RecordAlways(list, id) == Append(list, id)

\* `if id not in list: list.append(id)`
Record(list, id) == IF id \in Range(list) THEN list ELSE Append(list, id)

\* _track_custom_sql_ids
track_custom_sql_ids(field) ==
    IF field.typename = "ColumnField"
    THEN ForEach(LAMBDA column:
                   IF column.tableId \notin {NoId, Null}
                   THEN <<TrackCustomSql(column.tableId)>>
                   ELSE <<>>,
                 field.columns)
    ELSE <<>>

(* ------------------------- Upstream Table Record ----------------------- *)
\* d[key] = val on a Python dict: an existing key keeps its position
DictSet(d, key, val) ==
    IF \E i \in DOMAIN d : d[i].key = key
    THEN [i \in DOMAIN d |-> IF d[i].key = key THEN [key |-> key, val |-> val] ELSE d[i]]
    ELSE Append(d, [key |-> key, val |-> val])

\* the mutation of the column test that also skips in the custom-SQL context
SkipsTableAlways(table, is_custom_sql) == table.columns = <<>>

\* `not is_custom_sql and not table.get("columns")`
SkipsTable(table, is_custom_sql) == ~is_custom_sql /\ table.columns = <<>>

\* _create_upstream_table_lineage: its steps and the list it returns
create_upstream_table_lineage(datasource, project, is_custom_sql) ==
    FoldSeq(LAMBDA acc, table:
              IF SkipsTable(table, is_custom_sql)
              THEN acc
              ELSE [steps |-> Append(acc.steps,
                                RecordTable(make_table_urn(table),
                                            [columns |-> table.columns,
                                             path |-> SlashJoin3(ReplaceSlash(project),
                                                                 datasource.name,
                                                                 table.name)])),
                    upstream_tables |-> Append(acc.upstream_tables, make_table_urn(table))],
            [steps |-> <<>>, upstream_tables |-> <<>>], datasource.upstreamTables)

Emit(st, wu) == [st EXCEPT !.out = Append(@, wu)]

\* the record emit_upstream_tables yields for an entry of the dict
emit_upstream_tables(e) ==
    WorkUnit("table", e.key, e.val.columns, <<>>,
             <<"/", Env, "/", Platform, "/">> \o e.val.path)

(* ------------------------- Entity Mapper ------------------------------- *)
\* dict.get("id", ""): the default stands in for a missing key only, a null
\* comes back as it is
IdOrEmpty(id) == IF id = NoId THEN "" ELSE id

\* `if x not in self.datasource_ids_being_used: ...append(x)`, with the call logged
track_datasource_id(st, id) ==
    [st EXCEPT !.datasource_ids_being_used = Record(@, id),
               !.dsCalls = Append(@, id)]

\* _get_schema_metadata_for_embedded_datasource: its steps and the field
\* paths of the schema (empty: no schema aspect)
get_schema_metadata_for_embedded_datasource(datasource_fields) ==
    [steps |-> ForEach(track_custom_sql_ids, datasource_fields),
     fields |-> [i \in DOMAIN datasource_fields |-> datasource_fields[i].name]]

\* emit_datasource(datasource, workbook); hasWorkbook is `workbook is not None`
emit_datasource(datasource, workbook, hasWorkbook) ==
    LET datasource_info == IF hasWorkbook THEN workbook ELSE datasource
        project == ReplaceSlash(datasource_info.projectName)
        datasource_id == IdOrEmpty(datasource.id)
        browse == <<"/", Env, "/", Platform, "/">> \o project \o <<"/">>
                    \o datasource.name \o <<"/">> \o datasource.name
                    \o <<".", datasource_id>>
        owner == get_ownership(datasource_info.owner)
        lin == create_upstream_table_lineage(datasource, project, FALSE)
        sch == get_schema_metadata_for_embedded_datasource(datasource.fields)
    IN  <<TrackDatasource(datasource_id)>>
        \o lin.steps
        \o (IF lin.upstream_tables # <<>>
            THEN <<Yield(WorkUnit("lineage", datasource_id, <<>>, lin.upstream_tables, <<>>))>>
            ELSE <<>>)
        \o sch.steps
        \o <<Yield(WithOwner(WorkUnit("datasource", datasource_id, sch.fields, <<>>, browse),
                             owner)),
             Yield(WorkUnit("subTypes", datasource_id, <<>>, <<>>, <<>>))>>
        \o (IF datasource.typename = "EmbeddedDatasource"
            THEN <<Yield(WorkUnit("container_member", datasource_id, <<>>, <<>>, <<>>))>>
            ELSE <<>>)

\* emit_embedded_datasource
emit_embedded_datasource(workbook) ==
    ForEach(LAMBDA datasource: emit_datasource(datasource, workbook, TRUE),
            workbook.embeddedDatasources)

\* gen_containers of the emitter library: the records it yields for the
\* container of a workbook, each carrying the owner_urn it was called with
gen_containers(workbook_id, owner_urn) ==
    [k \in 1..library.container_records |->
       WithOwner(WorkUnit("container", workbook_id, <<>>, <<>>, <<>>),
                 IF owner_urn = "" THEN NoOwnership
                 ELSE [present |-> TRUE, owners |-> <<owner_urn>>])]

\* emit_workbook_as_container: owner_urn is None ("") unless the workbook
\* names a creator and ingest_owner is set; every record of gen_containers is
\* yielded
emit_workbook_as_container(workbook) ==
    LET creator == workbook.owner
        owner_urn == IF creator # "" /\ config.ingest_owner THEN creator ELSE ""
        container_workunits == gen_containers(workbook.id, owner_urn)
    IN  [k \in DOMAIN container_workunits |-> Yield(container_workunits[k])]

\* emit_sheets_as_charts
emit_sheets_as_charts(workbook) ==
    ForEach(LAMBDA sheet:
              LET inputs == SelectSeq(sheet.upstreamDatasources,
                                      LAMBDA ds_id: ds_id \notin {NoId, Null, ""})
                  browse == <<"/", Platform, "/">> \o ReplaceSlash(workbook.projectName)
                              \o <<"/">> \o workbook.name
                              \o <<"/">> \o ReplaceSlash(sheet.name)
                  creator == workbook.owner
              IN  [i \in DOMAIN inputs |-> TrackDatasource(inputs[i])]
                  \o <<Yield(WithOwner(WorkUnit("chart", sheet.id, <<>>, inputs, browse),
                                       get_ownership(creator))),
                       Yield(WorkUnit("container_member", sheet.id, <<>>, <<>>, <<>>))>>,
            workbook.sheets)

\* emit_dashboards
emit_dashboards(workbook) ==
    ForEach(LAMBDA dashboard:
              LET title == ReplaceSlash(dashboard.name)
                  browse == <<"/", Platform, "/">> \o ReplaceSlash(workbook.projectName)
                              \o <<"/">> \o ReplaceSlash(workbook.name)
                              \o <<"/">> \o title
                  creator == workbook.owner
              IN  <<Yield(WithOwner(WorkUnit("dashboard", dashboard.id, <<>>, <<>>, browse),
                                    get_ownership(creator))),
                    Yield(WorkUnit("container_member", dashboard.id, <<>>, <<>>, <<>>))>>,
            workbook.dashboards)

\* the body of the loop over the workbooks of a page (emit_workbooks)
emit_workbook(workbook) ==
    emit_workbook_as_container(workbook)
    \o emit_sheets_as_charts(workbook)
    \o emit_dashboards(workbook)
    \o emit_embedded_datasource(workbook)
    \o <<EmitUpstreamTables>>

(* ------------------------- custom SQL ---------------------------------- *)
\* the non-null datasources under the referencedByFields of a column
ReferencedDatasources(field) ==
    FoldSeq(LAMBDA acc, reference:
              IF reference.datasource # <<>>
              THEN Append(acc, reference.datasource[1]) ELSE acc,
            <<>>, field.referencedByFields)

\* get_unique_custom_sql of tableau_common: each node with the datasources
\* that reference its columns, without repetition
get_unique_custom_sql(nodes) ==
    [i \in DOMAIN nodes |->
       [id |-> nodes[i].id, name |-> nodes[i].name, columns |-> nodes[i].columns,
        datasources |->
          Dedup(FoldSeq(LAMBDA acc, column: acc \o ReferencedDatasources(column),
                        <<>>, nodes[i].columns))]]

\* _create_lineage_from_csql_datasource
create_lineage_from_csql_datasource(csql_urn, csql_datasource) ==
    ForEach(LAMBDA datasource:
              <<Yield(WorkUnit("lineage", IdOrEmpty(datasource.id), <<>>,
                               <<csql_urn>>, <<>>))>>,
            csql_datasource)

\* _create_lineage_to_upstream_tables
create_lineage_to_upstream_tables(csql_urn, columns) ==
    LET perDatasource(acc, datasource) ==
          IF IdOrEmpty(datasource.id) \in Range(acc.used_datasources)
          THEN acc
          ELSE LET lin == create_upstream_table_lineage(datasource,
                                                        datasource.projectName, TRUE)
               IN  [used_datasources |->
                      Append(acc.used_datasources, IdOrEmpty(datasource.id)),
                    steps |-> acc.steps \o lin.steps
                                \o (IF lin.upstream_tables # <<>>
                                    THEN <<Yield(WorkUnit("lineage", csql_urn, <<>>,
                                                          lin.upstream_tables, <<>>))>>
                                    ELSE <<>>)]
    IN  FoldSeq(LAMBDA acc, field:
                  FoldSeq(perDatasource, acc, ReferencedDatasources(field)),
                [used_datasources |-> <<>>, steps |-> <<>>], columns).steps

\* get_schema_metadata_for_custom_sql: the field paths of the schema it
\* returns (empty: None).  `fields` is re-created inside the loop.
get_schema_metadata_for_custom_sql(columns) ==
    FoldSeq(LAMBDA schema_metadata, field: <<field.name>>, <<>>, columns)

\* the body of the loop over the custom-SQL tables of a page
emit_custom_sql(csql) ==
    LET csql_id == IdOrEmpty(csql.id)
        browse == <<"/", Env, "/", Platform, "/", "Custom SQL", "/">> \o csql.name
                    \o <<"/", csql_id>>
    IN  create_lineage_from_csql_datasource(csql_id, csql.datasources)
        \o create_lineage_to_upstream_tables(csql_id, csql.columns)
        \o <<Yield(WorkUnit("custom_sql", csql_id,
                            get_schema_metadata_for_custom_sql(csql.columns),
                            <<>>, browse)),
             Yield(WorkUnit("subTypes", csql_id, <<>>, <<>>, <<>>))>>

\* the mutation of PhaseOrder that runs the custom-SQL pass second
PhaseOrderSwapped ==
    <<"workbooksConnection", "customSQLTablesConnection", "publishedDatasourcesConnection">>

\* the passes of get_workunits, in program order

PhaseOrder ==
    <<"workbooksConnection", "publishedDatasourcesConnection", "customSQLTablesConnection">>

Connection == PhaseOrder[phase]

NoLoop == [page_size |-> 0, filter |-> <<>>, total_count |-> 0,
           has_next_page |-> FALSE, current_count |-> 0, fetches |-> 0, todo |-> <<>>]

\* the object __init__ leaves when _authenticate never assigned self.server;
\* id tells the objects of a process apart, harvests counts the calls of
\* get_workunits on the object
NewSource == [id |-> 0, harvests |-> 0, server |-> "absent", close |-> "not_called",
              datasource_ids_being_used |-> <<>>, custom_sql_ids_being_used |-> <<>>,
              upstream_tables |-> <<>>, out |-> <<>>, dsCalls |-> <<>>, csqlCalls |-> <<>>]

(* ------------------------- the remote server --------------------------- *)
\* the items a well-behaved server holds behind a connection and a filter
ServerItems(conn, filter) ==
    CASE conn = "workbooksConnection" ->
           [i \in 1..server.total |->
              WorkbookCatalogue[((i - 1) % Len(WorkbookCatalogue)) + 1]]
      [] conn = "publishedDatasourcesConnection" ->
           SelectSeq(PublishedCatalogue, LAMBDA n: n.id \in Range(filter))
      [] conn = "customSQLTablesConnection" ->
           SelectSeq(CustomSqlCatalogue, LAMBDA n: n.id \in Range(filter))

\* what query_metadata returns: whether the answer has an "errors" key,
\* whether it has the connection under "data", what the connection holds, and
\* which of "data", the connection and "pageInfo" came as a JSON null
\* ("none": none of them)
DataResponse(errors, hasConnection, totalCount, hasNextPage, nodes) ==
    [exc |-> "none", errors |-> errors, hasConnection |-> hasConnection,
     totalCount |-> totalCount, hasNextPage |-> hasNextPage, nodes |-> nodes,
     null |-> "none"]

Raises(exc) == [exc |-> exc, errors |-> FALSE, hasConnection |-> FALSE,
                totalCount |-> 0, hasNextPage |-> FALSE, nodes |-> <<>>,
                null |-> "none"]

\* the answers in which a key is present with a null: {"data": null},
\* {"data": {connection: null}}, and the honest page h with "pageInfo": null;
\* each with and without an "errors" key
NullResponses(h) ==
    {[DataResponse(e, FALSE, 0, FALSE, <<>>) EXCEPT !.null = w] :
       e \in BOOLEAN, w \in {"data", "connection"}}
    \cup {[h EXCEPT !.errors = e, !.hasNextPage = FALSE, !.null = "pageInfo"] :
            e \in BOOLEAN}

\* the answer of a server that reports the same total on every response, has
\* a next page exactly while items remain beyond the requested window, and
\* returns the requested window
HonestResponse(conn, filter, count, offset) ==
    LET items == ServerItems(conn, filter)
        last  == Min(offset + count, Len(items))
    IN  DataResponse(FALSE, TRUE, Len(items), offset + count < Len(items),
                     IF 0 <= offset /\ offset + 1 <= last
                     THEN SubSeq(items, offset + 1, last) ELSE <<>>)

\* the nodes a query did not ask for
ExtraNode(conn) ==
    CASE conn = "workbooksConnection" -> {wbC}
      [] conn = "publishedDatasourcesConnection" -> {dsP9, dsNull, dsNoId}
      [] conn = "customSQLTablesConnection" -> {csqlQ2, csqlNull}

\* the ways one answer can depart from the honest one h: an exception out of
\* query_metadata, an error payload with or without data, a null where a
\* dictionary is expected, a page shorter or longer than asked for, another
\* total, another hasNextPage
FaultyResponses(conn, h) ==
    ({Raises("MetadataQueryException"), Raises("other"),
      [h EXCEPT !.errors = TRUE],
      DataResponse(TRUE, FALSE, 0, FALSE, <<>>),
      DataResponse(FALSE, FALSE, 0, FALSE, <<>>),
      [h EXCEPT !.nodes = IF @ = <<>> THEN @ ELSE SubSeq(@, 1, Len(@) - 1)],
      [h EXCEPT !.totalCount = @ + 1],
      [h EXCEPT !.totalCount = IF @ > 0 THEN @ - 1 ELSE @],
      [h EXCEPT !.hasNextPage = ~@]}
     \cup NullResponses(h)
     \cup {[h EXCEPT !.nodes = Append(@, n)] : n \in ExtraNode(conn)}) \ {h}

\* the session of the running source is open
SignedIn == self.server = "signed_in"

\* the answers query_metadata can come back with, and the server afterwards.
\* A server that has no open session with the client refuses, or answers all
\* the same.
Responses(conn, filter, count, offset) ==
    LET h == HonestResponse(conn, filter, count, offset)
    IN  {[response |-> h, server |-> server]}
        \cup (IF SignedIn THEN {}
              ELSE {[response |-> Raises("other"), server |-> server]})
        \cup (IF server.faults > 0
              THEN {[response |-> r, server |-> [server EXCEPT !.faults = @ - 1]] :
                      r \in FaultyResponses(conn, h)}
              ELSE {})

(* ------------------------- SourceReport -------------------------------- *)
\* SourceReport()
NewReport == [failures |-> <<>>, warnings |-> <<>>]

report_failure(rep, key) == [rep EXCEPT !.failures = Append(@, key)]

report_warning(rep, key) == [rep EXCEPT !.warnings = Append(@, key)]

(* ------------------------- Pagination Cursor --------------------------- *)
\* get_connection_object after query_metadata returned query_data: the
\* report, the tuple (nodes of connection_object, total_count, has_next_page)
\* and the exception that leaves it.  The warning is recorded first (177-182);
\* query_data.get("data", {}).get(...) and the two lines after it (184-186)
\* fall back to their defaults for a missing key only: on a null they call
\* .get on None, an AttributeError.
get_connection_object(rep, query_data) ==
    LET ok == query_data.null = "none"
    IN  [report |-> IF query_data.errors THEN report_warning(rep, "tableau-metadata")
                    ELSE rep,
         exc |-> IF ok THEN "none" ELSE "AttributeError",
         nodes |-> IF ok /\ query_data.hasConnection THEN query_data.nodes ELSE <<>>,
         total_count |-> IF ok /\ query_data.hasConnection
                         THEN query_data.totalCount ELSE 0,
         has_next_page |-> IF ok /\ query_data.hasConnection
                           THEN query_data.hasNextPage ELSE FALSE]

\* the mutation of NextCount that never clamps the last page
NextCountUnclamped(page_size, current_count, total_count) == page_size

\* the page size requested by a loop iteration
NextCount(page_size, current_count, total_count) ==
    IF current_count + page_size < total_count
    THEN page_size
    ELSE total_count - current_count

\* `current_count += count`
Advance(current_count, count, returned) == current_count + count

\* the for loops over the nodes of a fetched page
emit_workbooks(nodes) == ForEach(emit_workbook, nodes)

emit_published_datasources(nodes) ==
    ForEach(LAMBDA datasource: emit_datasource(datasource, datasource, FALSE), nodes)

\* the mutation of the custom-SQL pass that tracks the tables it maps as
\* datasources in use
emit_custom_sql_datasources_tracking(nodes) ==
    ForEach(LAMBDA csql: <<TrackDatasource(IdOrEmpty(csql.id))>> \o emit_custom_sql(csql),
            get_unique_custom_sql(nodes))

emit_custom_sql_datasources(nodes) ==
    ForEach(emit_custom_sql, get_unique_custom_sql(nodes))

\* what is to do for the page that came back on connection conn
ProcessPage(conn, nodes) ==
    CASE conn = "workbooksConnection" -> emit_workbooks(nodes)
      [] conn = "publishedDatasourcesConnection" -> emit_published_datasources(nodes)
      [] conn = "customSQLTablesConnection" -> emit_custom_sql_datasources(nodes)

\* a step that writes to the object, carried out on st
Apply(st, step) ==
    CASE step.op = "track_datasource" -> track_datasource_id(st, step.arg)
      [] step.op = "track_custom_sql" ->
           [st EXCEPT !.custom_sql_ids_being_used = Record(@, step.arg),
                      !.csqlCalls = Append(@, step.arg)]
      [] step.op = "record_table" ->
           [st EXCEPT !.upstream_tables = DictSet(@, step.arg.key, step.arg.val)]

RECURSIVE RunToYield(_, _)
\* the generator is resumed with todo left of its page: it runs up to its
\* next yield ("yielded"), to the end of the page ("exhausted"), or to the
\* RuntimeError of a dict iterator that finds the dict at another size than
\* when the loop of emit_upstream_tables began ("raised")
RunToYield(st, todo) ==
    IF todo = <<>>
    THEN [st |-> st, todo |-> <<>>, stop |-> "exhausted"]
    ELSE LET step == Head(todo)
             rest == Tail(todo)
         IN  CASE step.op = "yield" ->
                    [st |-> Emit(st, step.arg), todo |-> rest, stop |-> "yielded"]
               [] step.op = "emit_upstream_tables" ->
                    RunToYield(st, <<NextTable(1, Len(st.upstream_tables))>> \o rest)
               [] step.op = "next_table" ->
                    IF Len(st.upstream_tables) # step.arg.size
                    THEN [st |-> st, todo |-> <<>>, stop |-> "raised"]
                    ELSE IF step.arg.idx > step.arg.size
                    THEN RunToYield(st, rest)
                    ELSE [st |-> Emit(st, emit_upstream_tables(
                                            st.upstream_tables[step.arg.idx])),
                          todo |-> <<NextTable(step.arg.idx + 1, step.arg.size)>> \o rest,
                          stop |-> "yielded"]
               [] OTHER ->
                    LET next == Apply(st, step)
                    IN  IF next = next THEN RunToYield(next, rest) ELSE [st |-> st]

(* ------------------------- Harvest Orchestrator ------------------------ *)
\* the mutation of PhaseGuard that enters every pass
PhaseGuardAlways(conn) == TRUE

\* the `if` in front of a pass of get_workunits
PhaseGuard(conn) ==
    CASE conn = "workbooksConnection" -> TRUE
      [] conn = "publishedDatasourcesConnection" -> self.datasource_ids_being_used # <<>>
      [] conn = "customSQLTablesConnection" -> self.custom_sql_ids_being_used # <<>>

\* the page size a pass paginates with
PageSizeOf(conn) ==
    CASE conn = "workbooksConnection" -> config.workbooks_page_size
      [] conn = "publishedDatasourcesConnection" -> Len(self.datasource_ids_being_used)
      [] conn = "customSQLTablesConnection" -> Len(self.custom_sql_ids_being_used)

\* the identifiers a pass filters its queries by
FilterOf(conn) ==
    CASE conn = "workbooksConnection" -> config.projects
      [] conn = "publishedDatasourcesConnection" -> self.datasource_ids_being_used
      [] conn = "customSQLTablesConnection" -> self.custom_sql_ids_being_used

\* the mutation of HandleException that lets every exception through
HandleExceptionReraise(rep, exc) == [pc |-> "raised", report |-> rep]

\* the except clause of get_workunits: where the program goes and the report

HandleException(rep, exc) ==
    IF exc = "MetadataQueryException"
    THEN [pc |-> "done", report |-> report_failure(rep, "tableau-metadata")]
    ELSE [pc |-> "raised", report |-> rep]

NodeIds(nodes) == [i \in DOMAIN nodes |-> nodes[i].id]

\* the records the running generator has yielded, as positions of self.out
Yields == {i \in DOMAIN outConn : outConn[i].harvest = harvest}

\* one call of query_metadata as qlog keeps it: the query, whether it is the
\* probing call, the harvest it belongs to, the answer (nodes by id), what
\* get_connection_object made of it, and how many records the generator had
\* yielded when it was issued
QueryRecord(conn, filter, count, offset, probing, r, out_before) ==
    LET g == get_connection_object(report, r)
    IN  [conn |-> conn, filter |-> filter, count |-> count, offset |-> offset,
         probing |-> probing, harvest |-> harvest,
         response |-> [r EXCEPT !.nodes = NodeIds(r.nodes)],
         nodes |-> IF r.exc = "none" THEN NodeIds(g.nodes) ELSE <<>>,
         total_count |-> IF r.exc = "none" THEN g.total_count ELSE 0,
         has_next_page |-> r.exc = "none" /\ g.has_next_page,
         out_before |-> out_before]

\* the pass after pass p, or the end of get_workunits
Leave(p) ==
    /\ pc' = IF p < Len(PhaseOrder) THEN "enter" ELSE "done"
    /\ phase' = IF p < Len(PhaseOrder) THEN p + 1 ELSE p
    /\ loop' = NoLoop

\* the generator ran with lp the locals of its loop and stopped as run says:
\* suspended at a yield, at the head of the while loop, past the loop, or
\* with the RuntimeError passing through get_workunits
Ran(run, lp) ==
    /\ self' = run.st
    /\ outConn' = outConn \o [i \in 1..(Len(run.st.out) - Len(self.out)) |->
                                [conn |-> Connection, harvest |-> harvest]]
    /\ CASE run.stop = "yielded" ->
              /\ pc' = "yielded"
              /\ loop' = [lp EXCEPT !.todo = run.todo]
              /\ UNCHANGED phase
         [] run.stop = "raised" ->
              /\ pc' = "raised"
              /\ loop' = NoLoop
              /\ UNCHANGED phase
         [] run.stop = "exhausted" ->
              IF lp.has_next_page
              THEN /\ pc' = "loop"
                   /\ loop' = [lp EXCEPT !.todo = <<>>]
                   /\ UNCHANGED phase
              ELSE Leave(phase)

\* the tail shared by the probing call and the loop iteration: the answer r
\* to the query (count, offset) is in; new_count is current_count afterwards.
\* An exception out of query_metadata or out of get_connection_object goes
\* to the except clause of get_workunits.
\* After the probing call nothing is mapped; after the call of an iteration
\* the for loop over the page runs up to its first yield.
Answered(r, count, offset, filter, page_size, new_count, fetches) ==
    /\ qlog' = Append(qlog, QueryRecord(Connection, filter, count, offset, fetches = 0,
                                        r, Cardinality(Yields)))
    /\ IF r.exc # "none"
       THEN /\ pc' = HandleException(report, r.exc).pc
            /\ report' = HandleException(report, r.exc).report
            /\ loop' = NoLoop
            /\ UNCHANGED <<phase, self, outConn>>
       ELSE LET g == get_connection_object(report, r)
                todo == IF fetches = 0 THEN <<>> ELSE ProcessPage(Connection, g.nodes)
            IN  /\ report' = g.report
                /\ IF g.exc # "none"
                   THEN /\ pc' = HandleException(g.report, g.exc).pc
                        /\ loop' = NoLoop
                        /\ UNCHANGED <<phase, self, outConn>>
                   ELSE Ran(RunToYield(self, todo),
                            [page_size |-> page_size, filter |-> filter,
                             total_count |-> g.total_count,
                             has_next_page |-> g.has_next_page,
                             current_count |-> new_count, fetches |-> fetches,
                             todo |-> <<>>])

(* ------------------------- the process --------------------------------- *)
\* no code of a source is running: no source exists yet, the running one has
\* not begun its harvest, is suspended at a yield, or is through.  A
\* consumer that stops asking for records leaves its generator at "yielded".
Suspended == pc \in {"none", "created", "yielded", "done", "raised"}

\* the running generator has records to give
Unfinished == pc \in {"created", "yielded"}

\* the budget after the process left the running generator
Left(b) == IF Unfinished THEN [b EXCEPT !.switches = @ - 1] ELSE b

\* the running generator with its object, as it is kept while another one
\* runs; the dict of the class is not part of an object
Saved == [pc |-> pc, phase |-> phase, harvest |-> harvest,
          self |-> [self EXCEPT !.upstream_tables = <<>>],
          report |-> report, loop |-> loop, qlog |-> qlog, outConn |-> outConn]

\* the generators that were left over the running object hold the object as
\* it is now
Refresh(sources) ==
    [i \in DOMAIN sources |->
       IF sources[i].self.id = self.id
       THEN [sources[i] EXCEPT !.self = Saved.self, !.report = report,
                               !.qlog = qlog, !.outConn = outConn]
       ELSE sources[i]]

\* src is run again: its generator has records to give, or get_workunits
\* can still be called on its object
Keeps(src, b) == src.pc \in {"created", "yielded"} \/ b.harvests > 0

\* the generators that are kept under budget b
Kept(sources, b) == SelectSeq(sources, LAMBDA src: Keeps(src, b))

\* __init__ with _authenticate; auth is how _authenticate goes: the
\* credentials are missing (ConfigurationError leaves __init__, no object),
\* Server(...) raises (self.server is never assigned), sign_in raises, or
\* the session opens.  The process may construct a source whenever no code
\* of a source is running; the fields of the object are new, the
\* upstream_tables it reaches through the class is the dict every source of
\* the process writes to.
Create(auth) ==
    /\ Suspended
    /\ budget.instances > 0
    /\ auth # "ok" => budget.failures > 0
    /\ IF auth = "unconfigured"
       THEN /\ budget' = [budget EXCEPT !.instances = @ - 1, !.failures = @ - 1]
            /\ UNCHANGED <<pc, phase, harvest, config, server, library, self, report, loop,
                           qlog, outConn, others>>
       ELSE /\ Unfinished => budget.switches > 0
            /\ budget' = [Left(budget) EXCEPT
                            !.instances = @ - 1,
                            !.failures = IF auth = "ok" THEN @ ELSE @ - 1]
            /\ pc' = "created"
            /\ others' = IF pc = "none" THEN others
                         ELSE Kept(Append(Refresh(others), Saved), budget')
            /\ self' = [NewSource EXCEPT
                          !.id = budget.instances,
                          !.server = CASE auth = "ok" -> "signed_in"
                                       [] auth = "rejected" -> "not_signed_in"
                                       [] auth = "unreachable" -> "absent",
                          !.upstream_tables = self.upstream_tables]
            /\ report' = IF auth = "ok"
                         THEN NewReport ELSE report_failure(NewReport, "tableau-login")
            /\ phase' = 1
            /\ harvest' = 0
            /\ loop' = NoLoop
            /\ qlog' = <<>>
            /\ outConn' = <<>>
            /\ UNCHANGED <<config, server, library>>

\* the consumer turns to generator i of the others: one that has records to
\* give, or the object of one that is through.  A generator over the running
\* object comes back with the object as it is now.
Switch(i) ==
    /\ Suspended
    /\ pc # "none"
    /\ Unfinished => budget.switches > 0
    /\ i \in DOMAIN others
    /\ Keeps(others[i], budget)
    /\ budget' = Left(budget)
    /\ LET src == Refresh(others)[i]
       IN  /\ others' = Kept([Refresh(others) EXCEPT ![i] = Saved], budget')
           /\ pc' = src.pc
           /\ phase' = src.phase
           /\ harvest' = src.harvest
           /\ self' = [src.self EXCEPT !.upstream_tables = self.upstream_tables]
           /\ report' = src.report
           /\ loop' = src.loop
           /\ qlog' = src.qlog
           /\ outConn' = src.outConn
    /\ UNCHANGED <<config, server, library>>

\* close(): self.server.auth.sign_out(), an AttributeError when the object
\* has no server
Close ==
    /\ Suspended
    /\ pc # "none"
    /\ budget.closes > 0
    /\ budget' = [budget EXCEPT !.closes = @ - 1]
    /\ self' = IF self.server = "absent"
               THEN [self EXCEPT !.close = "raised"]
               ELSE [self EXCEPT !.close = "signed_out", !.server = "not_signed_in"]
    /\ UNCHANGED <<pc, phase, harvest, config, server, library, report, loop, qlog,
                   outConn, others>>

\* get_workunits is called on the running object and the new generator is
\* asked for its first record.  Nothing in the code keeps the call to one per
\* object: every call makes a generator that starts at the workbook pass,
\* over the object as the calls before left it.  A generator of the object
\* that is suspended stays as it is and can be resumed later.
GetWorkunits ==
    /\ pc \in {"created", "yielded", "done", "raised"}
    /\ self.harvests > 0 => budget.harvests > 0
    /\ budget' = IF self.harvests > 0 THEN [budget EXCEPT !.harvests = @ - 1] ELSE budget
    /\ others' = IF pc = "yielded"
                 THEN Kept(Append(Refresh(others), Saved), budget')
                 ELSE Kept(Refresh(others), budget')
    /\ self' = [self EXCEPT !.harvests = @ + 1]
    /\ harvest' = self.harvests + 1
    /\ pc' = "enter"
    /\ phase' = 1
    /\ loop' = NoLoop
    /\ UNCHANGED <<config, server, library, report, qlog, outConn>>

\* a pass whose guard holds starts: the probing call of its loop, an
\* AttributeError when the object has no server
Enter ==
    /\ pc = "enter"
    /\ PhaseGuard(Connection)
    /\ IF self.server = "absent"
       THEN /\ pc' = "raised"
            /\ UNCHANGED <<phase, server, self, report, loop, qlog, outConn>>
       ELSE \E a \in Responses(Connection, FilterOf(Connection), 0, 0) :
              /\ server' = a.server
              /\ Answered(a.response, 0, 0, FilterOf(Connection), PageSizeOf(Connection),
                          0, 0)
    /\ UNCHANGED <<harvest, config, library, others, budget>>

\* a pass whose guard fails is skipped
Skip ==
    /\ pc = "enter"
    /\ ~PhaseGuard(Connection)
    /\ Leave(phase)
    /\ UNCHANGED <<harvest, config, server, library, self, report, qlog, outConn, others,
                   budget>>

\* one iteration of the while loop of the running pass, up to its first
\* yield
Fetch ==
    /\ pc = "loop"
    /\ LET count == NextCount(loop.page_size, loop.current_count, loop.total_count)
       IN  \E a \in Responses(Connection, loop.filter, count, loop.current_count) :
             /\ server' = a.server
             /\ Answered(a.response, count, loop.current_count, loop.filter,
                         loop.page_size,
                         Advance(loop.current_count, count,
                                 Len(get_connection_object(report, a.response).nodes)),
                         loop.fetches + 1)
    /\ UNCHANGED <<harvest, config, library, others, budget>>

\* the consumer asks the suspended generator for its next record
Resume ==
    /\ pc = "yielded"
    /\ Ran(RunToYield(self, loop.todo), loop)
    /\ UNCHANGED <<harvest, config, server, library, report, qlog, others, budget>>

Next ==
    \/ \E auth \in {"ok", "rejected", "unreachable", "unconfigured"} : Create(auth)
    \/ \E i \in DOMAIN others : Switch(i)
    \/ Close
    \/ GetWorkunits
    \/ Enter
    \/ Skip
    \/ Fetch
    \/ Resume

InitCommon ==
    /\ pc = "none"
    /\ phase = 1
    /\ harvest = 0
    /\ self = NewSource
    /\ report = NewReport
    /\ loop = NoLoop
    /\ qlog = <<>>
    /\ outConn = <<>>
    /\ others = <<>>

Configs(sizes, owners) ==
    {[workbooks_page_size |-> p, projects |-> <<"default">>, ingest_owner |-> o] :
       p \in sizes, o \in owners}

Libraries(counts) == {[container_records |-> n] : n \in counts}

\* One source against a well-behaved server: every total with the largest
\* page size, and the largest total with every page size.  One source whose
\* sign-in may fail, against a small server that may depart from the honest
\* answer.  Several sources of one process, harvested in turns, against a
\* small well-behaved server.  One source whose sign-in may fail and that is
\* closed, against a small well-behaved server, with a container builder
\* that yields any number of records.  One source over one workbook that is
\* harvested again and again, each harvest begun wherever the one before
\* stands, the generators left behind never resumed; the same source
\* harvested twice, the consumer going back once to the generator it left;
\* two such sources, one harvested again after the other was harvested.
Init ==
    /\ InitCommon
    /\ \/ /\ server \in {[total |-> t, faults |-> 0] : t \in 0..MaxTotal}
          /\ config \in Configs(1..MaxPageSize, {TRUE})
          /\ server.total = MaxTotal \/ config.workbooks_page_size = MaxPageSize
          /\ library \in Libraries({1})
          /\ budget = [instances |-> 1, switches |-> 0, closes |-> 0, failures |-> 0,
                       harvests |-> 0]
       \/ /\ server \in {[total |-> t, faults |-> MaxFaults] : t \in 0..MaxFaultyTotal}
          /\ config \in Configs(1..MaxFaultyPageSize, {TRUE})
          /\ library \in Libraries({1})
          /\ budget = [instances |-> 1, switches |-> 0, closes |-> 0,
                       failures |-> MaxFaults, harvests |-> 0]
       \/ /\ server \in {[total |-> t, faults |-> 0] : t \in 0..MaxSharedTotal}
          /\ config \in Configs({1}, {TRUE})
          /\ library \in Libraries({1})
          /\ budget = [instances |-> MaxInstances, switches |-> MaxSwitches,
                       closes |-> 0, failures |-> 0, harvests |-> 0]
       \/ /\ server \in {[total |-> t, faults |-> 0] : t \in 0..MaxFaultyTotal}
          /\ config \in Configs(1..MaxFaultyPageSize, BOOLEAN)
          /\ library \in Libraries(0..MaxContainerRecords)
          /\ budget = [instances |-> 1, switches |-> 0, closes |-> MaxCloses,
                       failures |-> MaxFaults, harvests |-> 0]
       \/ /\ server = [total |-> 1, faults |-> 0]
          /\ config \in Configs({1}, {TRUE})
          /\ library \in Libraries({1})
          /\ budget \in {[instances |-> 1, switches |-> 0, closes |-> 0,
                         failures |-> 0, harvests |-> MaxHarvests],
                        [instances |-> 1, switches |-> 1, closes |-> 0,
                         failures |-> 0, harvests |-> 1],
                        [instances |-> 2, switches |-> 0, closes |-> 0,
                         failures |-> 0, harvests |-> 1]}

Spec == Init /\ [][Next]_vars

(* ========================= properties ================================== *)
Last(s) == s[Len(s)]

\* what the running generator did, out of what was done on its object: its
\* queries, its records and the connection each record was yielded under
HarvestQlog ==
    IF self.harvests <= 1 THEN qlog ELSE SelectSeq(qlog, LAMBDA q: q.harvest = harvest)

HarvestYields ==
    FoldSeq(LAMBDA acc, i: IF outConn[i].harvest = harvest THEN Append(acc, i) ELSE acc,
            <<>>, [i \in DOMAIN outConn |-> i])

HarvestOut ==
    IF self.harvests <= 1 THEN self.out
    ELSE LET ys == HarvestYields IN [k \in DOMAIN ys |-> self.out[ys[k]]]

HarvestConn ==
    IF self.harvests <= 1 THEN [i \in DOMAIN outConn |-> outConn[i].conn]
    ELSE LET ys == HarvestYields IN [k \in DOMAIN ys |-> outConn[ys[k]].conn]

CountOf(s, x) == Cardinality({i \in DOMAIN s : s[i] = x})

QueriesOf(conn) ==
    LET hlog == HarvestQlog
    IN
    SelectSeq(hlog, LAMBDA q: q.conn = conn)

\* the records yielded between query i of the harvest and the next one
EmittedAfter(i) ==
    LET hout == HarvestOut
        hlog == HarvestQlog
    IN
    (IF i < Len(hlog) THEN hlog[i + 1].out_before ELSE Len(hout)) - hlog[i].out_before

\* sign_in raised while the running source was constructed
SignInRejected ==
    pc # "none" /\ self.server = "not_signed_in" /\ self.close = "not_called"

\* a step of the harvest of the running source, not one of the process
\* around it (Create, Switch, Close)
HarvestStep == budget' = budget /\ others' = others

\* C1: when sign-in was rejected during construction, a failure is reported,
\* no metadata query is issued and no record is yielded.
C1_RejectedSignInStopsHarvest ==
    SignInRejected =>
        /\ "tableau-login" \in Range(report.failures)
        /\ qlog = <<>>
        /\ self.out = <<>>

\* the answers to the workbook queries are those of the server of C2: the
\* same total every time, hasNextPage exactly while items remain beyond the
\* requested window
ConsistentWorkbookServer(wq) ==
    \A i \in DOMAIN wq :
        /\ wq[i].response.exc = "none"
        /\ wq[i].response.hasConnection
        /\ wq[i].response.totalCount = wq[1].response.totalCount
        /\ wq[i].response.hasNextPage =
             (wq[i].offset + wq[i].count < wq[1].response.totalCount)

\* get_workunits is past the loop of emit_workbooks
WorkbookLoopOver == phase > 1 \/ pc = "done"

\* C2: against a server that reports the same total T > 0 every time and a
\* next page exactly while items remain beyond the requested window, the
\* fetches after the probing call are (0,P), (P,P), ... with the last one
\* asking for the T - kP items that remain, and has_next is false only after
\* the last of them; for T = 25, P = 10 they are (0,10), (10,10), (20,5).
C2_WorkbookPagination ==
    LET wq == QueriesOf("workbooksConnection")
        T == wq[1].response.totalCount
        P == config.workbooks_page_size
        fetched == [k \in 1..(Len(wq) - 1) |-> <<wq[k + 1].offset, wq[k + 1].count>>]
    IN  (wq # <<>> /\ ConsistentWorkbookServer(wq) /\ T > 0) =>
          /\ \A k \in DOMAIN fetched :
               /\ fetched[k] = <<(k - 1) * P, IF k * P < T THEN P ELSE T - (k - 1) * P>>
               /\ wq[k + 1].has_next_page = (k * P < T)
          /\ WorkbookLoopOver => Len(fetched) = (T + P - 1) \div P
          /\ (WorkbookLoopOver /\ T = 25 /\ P = 10) =>
               fetched = << <<0, 10>>, <<10, 10>>, <<20, 5>> >>

C2_Witness ==
    LET wq == QueriesOf("workbooksConnection")
    IN  /\ Len(wq) = 4
        /\ ConsistentWorkbookServer(wq)
        /\ wq[1].response.totalCount = 25
        /\ config.workbooks_page_size = 10
        /\ ~wq[4].has_next_page
        /\ wq[3].has_next_page

\* C3: in every pagination loop of a signed-in source the offset of the next
\* fetch is the offset of this fetch plus the number of nodes this fetch
\* returned.
C3_OffsetAdvancesByReturned ==
    LET hlog == HarvestQlog
    IN
    \A i \in 1..(Len(hlog) - 1) :
        (SignedIn /\ ~hlog[i].probing /\ ~hlog[i + 1].probing /\ hlog[i + 1].conn = hlog[i].conn) =>
            hlog[i + 1].offset = hlog[i].offset + Len(hlog[i].nodes)

ClaimedPosition(conn) ==
    CASE conn = "workbooksConnection" -> 1
      [] conn = "publishedDatasourcesConnection" -> 2
      [] conn = "customSQLTablesConnection" -> 3

\* C4: in every harvest, the first of an object or a later one, the passes
\* run in the order WORKBOOKS, PUBLISHED_DATASOURCES, CUSTOM_SQL and none is
\* entered twice: the queries and the yielded records of the harvest never go
\* back to the connection of an earlier pass, and the harvest probes each
\* connection at most once.
C4_PhasesInOrder ==
    LET hout == HarvestOut
        hlog == HarvestQlog
        hconn == HarvestConn
    IN
    /\ \A i, j \in DOMAIN hlog :
         i < j => ClaimedPosition(hlog[i].conn) <= ClaimedPosition(hlog[j].conn)
    /\ \A i, j \in DOMAIN hout :
         i < j => ClaimedPosition(hconn[i]) <= ClaimedPosition(hconn[j])
    /\ \A i, j \in DOMAIN hlog :
         (hlog[i].probing /\ hlog[j].probing /\ hlog[i].conn = hlog[j].conn) => i = j
    /\ Len(outConn) = Len(self.out)

C4_Witness ==
    LET hout == HarvestOut
        hlog == HarvestQlog
        hconn == HarvestConn
    IN
    /\ pc = "done"
    /\ harvest > 1
    /\ \A c \in Range(PhaseOrder) :
         /\ \E i \in DOMAIN hlog : hlog[i].conn = c /\ ~hlog[i].probing
         /\ \E i \in DOMAIN hout : hconn[i] = c

\* C5: the published-datasource connection and the custom-SQL connection are
\* queried only when the tracker of their kind is non-empty as the pass is
\* reached, and every query of the pass is filtered by the identifiers
\* tracked at that moment.
C5_GuardedFilteredPasses ==
    [][(HarvestStep /\ Len(qlog') = Len(qlog) + 1) =>
         LET q == Last(qlog')
         IN  \/ q.conn = "workbooksConnection"
             \/ /\ q.filter # <<>>
                /\ IF q.probing
                   THEN q.filter = (IF q.conn = "publishedDatasourcesConnection"
                                    THEN self.datasource_ids_being_used
                                    ELSE self.custom_sql_ids_being_used)
                   ELSE Last(HarvestQlog).conn = q.conn /\ Last(HarvestQlog).filter = q.filter]_vars

C5_Witness ==
    LET hlog == HarvestQlog
    IN
    /\ \E i \in DOMAIN hlog :
         /\ hlog[i].conn = "customSQLTablesConnection"
         /\ ~hlog[i].probing
         /\ hlog[i].filter = <<"q1", "q2">>
    /\ \E i \in DOMAIN hlog :
         /\ hlog[i].conn = "publishedDatasourcesConnection"
         /\ ~hlog[i].probing
         /\ hlog[i].filter = <<"p1", "e1", "e2">>

MqeIn(log) == {i \in DOMAIN log : log[i].response.exc = "MetadataQueryException"}

MqeQueries ==
    LET hlog == HarvestQlog
    IN
    MqeIn(hlog)

\* C6: a MetadataQueryException ends the harvest where it is raised: no query
\* and no record follows it, the report holds exactly one failure for it, and
\* get_workunits returns instead of raising.
C6_QueryExceptionAborts ==
    LET hout == HarvestOut
        hlog == HarvestQlog
    IN
    /\ \A i \in MqeQueries :
         /\ i = Len(hlog)
         /\ pc = "done"
         /\ Len(hout) = hlog[i].out_before
    /\ CountOf(report.failures, "tableau-metadata") = Cardinality(MqeIn(qlog))
    /\ Cardinality(MqeQueries) <= 1

C6_Witness ==
    LET hlog == HarvestQlog
    IN
    \E i \in MqeQueries :
        /\ hlog[i].conn = "publishedDatasourcesConnection"
        /\ ~hlog[i].probing
        /\ self.custom_sql_ids_being_used # <<>>
        /\ pc = "done"

ErrorsIn(log) == {i \in DOMAIN log : log[i].response.exc = "none" /\ log[i].response.errors}

ErrorQueries ==
    LET hlog == HarvestQlog
    IN
    ErrorsIn(hlog)

\* C7: an answer with an error payload adds a warning and no failure;
\* get_connection_object returns the nodes, total and hasNextPage the answer
\* holds (no nodes, 0 and false when it holds none); the loop goes on to the
\* next page when hasNextPage is set and the harvest to the next pass when
\* not: the harvest never ends with an exception on such an answer.
C7_ErrorPayloadIsWarning ==
    LET hlog == HarvestQlog
    IN
    /\ Len(report.warnings) = Cardinality(ErrorsIn(qlog))
    /\ CountOf(report.failures, "tableau-metadata") = Cardinality(MqeIn(qlog))
    /\ \A i \in ErrorQueries :
         LET q == hlog[i]
             r == q.response
         IN  /\ q.nodes = (IF r.hasConnection THEN r.nodes ELSE <<>>)
             /\ q.total_count = (IF r.hasConnection THEN r.totalCount ELSE 0)
             /\ q.has_next_page = (r.hasConnection /\ r.hasNextPage)
             /\ (~q.probing /\ (i < Len(hlog) \/ pc # "yielded")) =>
                    EmittedAfter(i) >= Len(q.nodes)
             /\ IF i < Len(hlog)
                THEN IF q.has_next_page
                     THEN hlog[i + 1].conn = q.conn /\ ~hlog[i + 1].probing
                     ELSE hlog[i + 1].probing
                ELSE \/ pc = "yielded" /\ Connection = q.conn /\ ~q.probing
                     \/ IF q.has_next_page
                        THEN pc = "loop" /\ Connection = q.conn
                        ELSE \/ pc = "enter"
                             \/ /\ pc = "done"
                                /\ q.conn = "workbooksConnection" =>
                                     self.datasource_ids_being_used = <<>>
                                /\ q.conn # "customSQLTablesConnection" =>
                                     self.custom_sql_ids_being_used = <<>>

\* C8: neither tracker ever holds an identifier twice, each holds the
\* identifiers recorded so far in the order of their first occurrence, and
\* no step of a harvest removes one.
C8_TrackersDeduplicated ==
    /\ [](/\ NoDuplicates(self.datasource_ids_being_used)
          /\ NoDuplicates(self.custom_sql_ids_being_used)
          /\ self.datasource_ids_being_used = Dedup(self.dsCalls)
          /\ self.custom_sql_ids_being_used = Dedup(self.csqlCalls))
    /\ [][HarvestStep =>
            /\ IsPrefix(self.datasource_ids_being_used, self'.datasource_ids_being_used)
            /\ IsPrefix(self.custom_sql_ids_being_used, self'.custom_sql_ids_being_used)]_vars

C8_Witness ==
    /\ Len(self.dsCalls) > Len(self.datasource_ids_being_used) + 1
    /\ Len(self.csqlCalls) > Len(self.custom_sql_ids_being_used)
    /\ Len(self.datasource_ids_being_used) >= 3
    /\ Len(self.custom_sql_ids_being_used) >= 2

Trackers == <<self.datasource_ids_being_used, self.custom_sql_ids_being_used>>

\* the next step of the harvest belongs to the pass over conn
InPass(conn) == pc \in {"enter", "loop", "yielded"} /\ Connection = conn /\ HarvestStep

\* C9 as stated: the trackers are written only during the workbook pass; no
\* step of the published-datasource pass or of the custom-SQL pass changes them.
C9_TrackersWrittenOnlyByWorkbooks ==
    [][(InPass("publishedDatasourcesConnection") \/ InPass("customSQLTablesConnection"))
         => Trackers' = Trackers]_vars

\* C9 as amended: the trackers are written during the workbook pass and the
\* published-datasource pass, where they only grow; no step of the custom-SQL
\* pass changes them, whatever nodes the server returns.
C9_TrackersReadOnlyInCustomSql ==
    [][/\ InPass("customSQLTablesConnection") => Trackers' = Trackers
       /\ InPass("publishedDatasourcesConnection") =>
            /\ IsPrefix(Trackers[1], Trackers'[1])
            /\ IsPrefix(Trackers[2], Trackers'[2])]_vars

C9_Witness ==
    LET hlog == HarvestQlog
    IN
    /\ \E i \in DOMAIN hlog :
         /\ hlog[i].conn = "customSQLTablesConnection"
         /\ Len(hlog[i].nodes) = 2
         /\ EmittedAfter(i) > 0
    /\ \E i \in DOMAIN hlog :
         /\ hlog[i].conn = "publishedDatasourcesConnection"
         /\ "p9" \in Range(hlog[i].nodes)
    /\ "p9" \in Range(self.datasource_ids_being_used)
    /\ "q2" \in Range(self.custom_sql_ids_being_used)

\* C10: in the harvest of a signed-in source every recorded upstream table is
\* yielded as a placeholder exactly once, at the end: no table is yielded
\* twice and nothing else is yielded after a placeholder.
C10_UpstreamTablesEmittedOnceAtEnd ==
    LET hout == HarvestOut
    IN
    LET out == hout
    IN  SignedIn =>
          /\ \A i, j \in DOMAIN out :
               (out[i].kind = "table" /\ out[j].kind = "table" /\ out[i].urn = out[j].urn)
                  => i = j
          /\ \A i, j \in DOMAIN out :
               (i < j /\ out[i].kind = "table") => out[j].kind = "table"

\* the position in what the source has yielded of the first record of a kind
\* about an entity
FirstIndex(kind, urn) ==
    LET hout == HarvestOut
    IN
    CHOOSE i \in DOMAIN hout :
        /\ hout[i].kind = kind /\ hout[i].urn = urn
        /\ \A j \in 1..(i - 1) : ~(hout[j].kind = kind /\ hout[j].urn = urn)

Yielded(kind, urn) ==
    LET hout == HarvestOut
    IN
    \E i \in DOMAIN hout : hout[i].kind = kind /\ hout[i].urn = urn

\* C11: in the harvest of a signed-in source whose container builder yields
\* a record, once the workbook wA (one sheet, one dashboard, one embedded
\* datasource e1 over the two-column table t_orders) is mapped, its records
\* were yielded in the order container, chart, dashboard, datasource entity,
\* lineage edge e1 -> t_orders, table placeholder with the two columns; in
\* particular the datasource entity comes before its lineage edge.
C11_EndToEndOrder ==
    LET hout == HarvestOut
    IN
    (SignedIn /\ library.container_records > 0 /\ Yielded("table", "t_orders")) =>
        /\ Yielded("container", "wA") /\ Yielded("chart", "s1")
        /\ Yielded("dashboard", "b1") /\ Yielded("datasource", "e1")
        /\ Yielded("lineage", "e1")
        /\ FirstIndex("container", "wA") < FirstIndex("chart", "s1")
        /\ FirstIndex("chart", "s1") < FirstIndex("dashboard", "b1")
        /\ FirstIndex("dashboard", "b1") < FirstIndex("datasource", "e1")
        /\ FirstIndex("datasource", "e1") < FirstIndex("lineage", "e1")
        /\ FirstIndex("lineage", "e1") < FirstIndex("table", "t_orders")
        /\ hout[FirstIndex("lineage", "e1")].upstreams = <<"t_orders">>
        /\ hout[FirstIndex("table", "t_orders")].fields = <<"c1", "c2">>

\* the server's node of a datasource, of a custom-SQL table
DatasourceNode(id) ==
    CHOOSE d \in {dsE1, dsE2, dsP1, dsP9, dsNull, dsNoId} : IdOrEmpty(d.id) = id

CsqlNode(id) ==
    CHOOSE c \in Range(get_unique_custom_sql(CustomSqlCatalogue \o <<csqlNull>>)) :
        IdOrEmpty(c.id) = id

TableRefs(tables) == [i \in DOMAIN tables |-> tables[i].ref]

WithColumns(tables) == SelectSeq(tables, LAMBDA t: t.columns # <<>>)

RecordedKeys == {self.upstream_tables[i].key : i \in DOMAIN self.upstream_tables}

InDatasourceContext(conn) ==
    conn \in {"workbooksConnection", "publishedDatasourcesConnection"}

\* the lineage edges of a datasource go to its tables that have columns, and
\* there is no edge when none has
DatasourceLineageSkipsColumnless ==
    LET hout == HarvestOut
        hconn == HarvestConn
    IN
    \A j \in DOMAIN hout :
        (hout[j].kind = "datasource") =>
            LET d == DatasourceNode(hout[j].urn)
                edges == {i \in 1..(j - 1) : /\ hout[i].kind = "lineage"
                                             /\ hout[i].urn = d.id
                                             /\ InDatasourceContext(hconn[i])}
            IN  /\ \A i \in edges :
                     hout[i].upstreams = TableRefs(WithColumns(d.upstreamTables))
                /\ (edges # {}) = (WithColumns(d.upstreamTables) # <<>>)

\* a custom-SQL table has an edge to all the tables of each datasource that
\* reads it, and every one of them is in the record with columns it came with
CustomSqlLineageKeepsColumnless ==
    LET hout == HarvestOut
        hconn == HarvestConn
    IN
    \A j \in DOMAIN hout :
        (hout[j].kind = "custom_sql") =>
            LET c == CsqlNode(hout[j].urn)
            IN  \A k \in DOMAIN c.datasources :
                    LET tables == c.datasources[k].upstreamTables
                    IN  tables # <<>> =>
                          /\ \E i \in 1..(j - 1) :
                                /\ hout[i].kind = "lineage"
                                /\ hout[i].urn = c.id
                                /\ hconn[i] = "customSQLTablesConnection"
                                /\ hout[i].upstreams = TableRefs(tables)
                          /\ \A t \in Range(tables) :
                                \E e \in Range(self.upstream_tables) :
                                    /\ e.key = t.ref
                                    /\ e.val.columns \in {tRaw.columns, tRawCols.columns}

\* C12: in the datasource context a table without columns gets no lineage
\* edge and no step of the workbook pass or of the published-datasource pass
\* writes it to the Upstream Table Record; in the custom-SQL context the same
\* table is not skipped: the custom-SQL entity has a lineage edge to it and
\* it is in the record, with the columns it came with.
C12_ColumnlessSkippedOnlyForDatasources ==
    /\ [](DatasourceLineageSkipsColumnless /\ CustomSqlLineageKeepsColumnless)
    /\ [][(InPass("workbooksConnection") \/ InPass("publishedDatasourcesConnection")) =>
            \A i \in DOMAIN self'.upstream_tables :
                (i > Len(self.upstream_tables)
                   \/ self'.upstream_tables[i] # self.upstream_tables[i])
                  => self'.upstream_tables[i].val.columns # <<>>]_vars

C12_Witness ==
    LET hout == HarvestOut
        hconn == HarvestConn
    IN
    /\ Yielded("datasource", "e2")
    /\ ~\E i \in DOMAIN hout :
          /\ hout[i].kind = "lineage" /\ hout[i].urn = "e2"
          /\ InDatasourceContext(hconn[i])
    /\ Yielded("custom_sql", "q2")
    /\ \E i \in DOMAIN hout :
         /\ hout[i].kind = "lineage" /\ hout[i].urn = "q2"
         /\ hout[i].upstreams = <<"t_raw">>
    /\ \E e \in Range(self.upstream_tables) : e.key = "t_raw" /\ e.val.columns = <<>>
    /\ "t_orders" \in RecordedKeys

\* the creator the server names for a chart, a dashboard or a datasource: the
\* owner of the workbook that holds it, or of the published datasource
WorkbookHolding(kind, urn) ==
    CHOOSE w \in Range(WorkbookCatalogue) :
        \E x \in Range(CASE kind = "chart" -> w.sheets
                          [] kind = "dashboard" -> w.dashboards
                          [] kind = "datasource" -> w.embeddedDatasources) : x.id = urn

CreatorOf(kind, urn) ==
    IF kind = "datasource" /\ DatasourceNode(urn).typename = "PublishedDatasource"
    THEN DatasourceNode(urn).owner
    ELSE WorkbookHolding(kind, urn).owner

\* C13: a chart, dashboard or datasource record has no ownership aspect
\* when ingest_owner is false, whatever the creator; when ingest_owner is true
\* it has one that names the creator, and only the creator, if the creator is
\* a non-empty string, and none if the creator is empty.
C13_OwnershipFollowsIngestOwner ==
    LET hout == HarvestOut
    IN
    \A i \in DOMAIN hout :
        LET wu == hout[i]
        IN  wu.kind \in {"chart", "dashboard", "datasource"} =>
              LET creator == CreatorOf(wu.kind, wu.urn)
              IN  /\ ~config.ingest_owner => ~wu.owner.present
                  /\ (config.ingest_owner /\ creator # "") =>
                        (wu.owner.present /\ wu.owner.owners = <<creator>>)
                  /\ (config.ingest_owner /\ creator = "") => ~wu.owner.present
                  /\ ~wu.owner.present => wu.owner.owners = <<>>

C13_Witness ==
    LET hout == HarvestOut
    IN
    /\ config.ingest_owner
    /\ \E i \in DOMAIN hout :
         /\ hout[i].kind = "chart" /\ hout[i].urn = "s1"
         /\ hout[i].owner = [present |-> TRUE, owners |-> <<"alice">>]
    /\ \E i \in DOMAIN hout :
         /\ hout[i].kind = "dashboard" /\ hout[i].urn = "b2"
         /\ ~hout[i].owner.present
    /\ \E i \in DOMAIN hout :
         /\ hout[i].kind = "datasource" /\ hout[i].urn = "p1"
         /\ hout[i].owner = [present |-> TRUE, owners |-> <<"bob">>]
    /\ \E i \in DOMAIN hout :
         /\ hout[i].kind = "datasource" /\ hout[i].urn = "e2"
         /\ ~hout[i].owner.present

\* the segments a browse path has when no name holds a "/": the number of
\* "/" in /platform/project/workbook/sheet and in /env/platform/a/b/c
PathSeparators(kind) ==
    CASE kind \in {"chart", "dashboard"} -> 4
      [] kind \in {"datasource", "custom_sql", "table"} -> 5

\* C14: in every chart, dashboard, datasource, custom-SQL and table record
\* yielded by a signed-in source the browse path has as many "/" as its
\* pattern has separators: a "/" inside a project, workbook, datasource,
\* table or entity name was replaced and adds no segment.
C14_BrowsePathHasNoSlashInNames ==
    LET hout == HarvestOut
    IN
    SignedIn =>
      \A i \in DOMAIN hout :
          LET wu == hout[i]
          IN  wu.kind \in {"chart", "dashboard", "datasource", "custom_sql", "table"} =>
                CountOf(wu.path, "/") = PathSeparators(wu.kind)

\* C15: in every pagination loop of a signed-in source, whatever the server
\* answers, each fetch after the probing call asks for more than 0 items and
\* starts at an offset greater than that of the fetch before it.
C15_OffsetsIncreaseCountsPositive ==
    LET hlog == HarvestQlog
    IN
    SignedIn =>
      /\ \A i \in DOMAIN hlog : ~hlog[i].probing => hlog[i].count > 0
      /\ \A i \in 1..(Len(hlog) - 1) :
           (~hlog[i].probing /\ ~hlog[i + 1].probing /\ hlog[i + 1].conn = hlog[i].conn)
              => hlog[i + 1].offset > hlog[i].offset

\* the trackers and the record as a harvest starts: before get_workunits is
\* called on a new object, and as the generator of any call sets out
StartsEmpty ==
    (pc = "created" \/ (pc = "enter" /\ phase = 1)) =>
        /\ self.datasource_ids_being_used = <<>>
        /\ self.custom_sql_ids_being_used = <<>>
        /\ self.upstream_tables = <<>>

\* every placeholder is for a table this source recorded itself, as the
\* upstream of a lineage edge it yielded before, in whichever of its harvests
NoForeignPlaceholder ==
    \A j \in DOMAIN self.out :
        self.out[j].kind = "table" =>
          \E i \in 1..(j - 1) :
              /\ self.out[i].kind = "lineage"
              /\ self.out[j].urn \in Range(self.out[i].upstreams)

\* every answer so far is the one a well-behaved server gives
AllAnswersHonest ==
    LET hlog == HarvestQlog
    IN
    \A q \in Range(hlog) :
        LET h == HonestResponse(q.conn, q.filter, q.count, q.offset)
        IN  q.response = [h EXCEPT !.nodes = NodeIds(h.nodes)]

\* the harvest of a signed-in source that got well-behaved answers only does
\* not end with an exception: what another harvest records does not reach it
UndisturbedByOthers == ~(pc = "raised" /\ SignedIn /\ AllAnswersHonest)

\* C16: the trackers and the Upstream Table Record of a source are its own:
\* they are empty when its harvest starts, and when two sources are created
\* and harvested in one process no table recorded by one is visible to, or
\* yielded as a placeholder by, the other, nor does recording it disturb the
\* harvest of the other.
C16_RecordOwnedByOneInstance ==
    StartsEmpty /\ NoForeignPlaceholder /\ UndisturbedByOthers

\* C17: when the harvest of a signed-in source has ended without a failure,
\* every answer having been the one of a well-behaved server,
\* every table it wrote to the Upstream Table Record, in whichever pass, was
\* yielded as a placeholder after it was written, with the columns the
\* record holds for it.
C17_EveryRecordedTableIsEmitted ==
    LET hout == HarvestOut
    IN
    (pc = "done" /\ SignedIn /\ report.failures = <<>>
       /\ AllAnswersHonest) =>
        \A e \in Range(self.upstream_tables) :
            \A i \in DOMAIN hout :
                (hout[i].kind = "lineage" /\ e.key \in Range(hout[i].upstreams)) =>
                    \E j \in (i + 1)..Len(hout) :
                        /\ hout[j].kind = "table"
                        /\ hout[j].urn = e.key
                        /\ hout[j].fields = e.val.columns

\* C18: the schema of every custom-SQL table yielded by a signed-in source
\* against a well-behaved server has one field per column of the table, in
\* column order (none, and no schema aspect, when the table has no column).
C18_CustomSqlSchemaHasEveryColumn ==
    LET hout == HarvestOut
    IN
    (SignedIn /\ AllAnswersHonest) =>
        \A j \in DOMAIN hout :
            hout[j].kind = "custom_sql" =>
                LET columns == CsqlNode(hout[j].urn).columns
                IN  hout[j].fields = [k \in DOMAIN columns |-> columns[k].name]

====
